---- MODULE Spec2Model ----
(***************************************************************************)
(* A model of longern/afterlife-vault ("Inactive Email Manager").          *)
(*                                                                         *)
(* The repository holds two generations of the same dead-man's switch:     *)
(*   - src/src/index.ts: an invitation signature (HMAC) lets a contact     *)
(*     start a Cloudflare Workflow (SleepWorkflow: notify, sleep, send);   *)
(*   - src/unnamed/part_000: the earlier worker, in which a contact is     *)
(*     handed a time-bound JWT and later presents it to read the vault.    *)
(*                                                                         *)
(* Spec is the state machine of index.ts, TokenSpec the one of part_000.   *)
(* Time is the wall clock in milliseconds (Date.now()).  Day counts are    *)
(* kept in hundredths of a day, so that the 0.03 days of part_000 and      *)
(* fractional settings are integers.                                       *)
(***************************************************************************)
EXTENDS Integers, Sequences, FiniteSets, TLC

VARIABLES
  now,        \* Date.now(), in milliseconds
  env,        \* the worker's configuration (env.*), fixed at deployment
  wf,         \* the workflow instances, by slot
  nextId,     \* the number of instances created so far (crypto.randomUUID)
  crashes,    \* the number of orchestrator restarts so far
  mailbox,    \* what the email (or fetch) handler last did
  issued      \* part_000: the trigger tokens createToken has signed

vars == <<now, env, wf, nextId, crashes, mailbox, issued>>

(***************************************************************************)
(* Bounds of the model.                                                    *)
(***************************************************************************)
MaxInstances == 1
MaxCrashes == 1
MaxTokens == 1
MaxReplayInstances == 2
MaxContacts == 3

(***************************************************************************)
(* Program constants.                                                      *)
(***************************************************************************)
\* index.ts:10, DEFAULT_NOT_BEFORE_DAYS = 7, in hundredths of a day
DEFAULT_NOT_BEFORE_DAYS == 700
\* index.ts:175, the ceiling of parseDays, 365 days, in hundredths of a day
WorkflowDaysCeiling == 36500
\* index.ts:41 and :81, retries.limit of the notify and the send step
RetriesLimit == 2
\* 24 * 60 * 60 * 1000 milliseconds a day (index.ts:73), per hundredth of a day
MsPerCentiDay == (24 * 60 * 60 * 1000) \div 100

\* What parseFloat makes of a configured string: NaN (the variable is absent
\* or no number) or a number, in hundredths of a day.
\* The instant the model starts at: some Date.now() that is no whole second.
StartInstant == 200 * MsPerCentiDay + 1500

NaN == [isNaN |-> TRUE, value |-> 0]
Num(v) == [isNaN |-> FALSE, value |-> v]

\* The values NOT_BEFORE_DAYS is configured with: absent or not a number,
\* zero, negative, fractional, whole, above the ceiling.
WorkflowDayInputs ==
  {NaN} \cup {Num(v) : v \in {0, -100, 50, WorkflowDaysCeiling + 100}}

Owner == "owner@v.org"
Contacts == {"a@x.com", "b@y.com"}
Bot == "vault@bot.dev"
Secret == "s3cret"
OtherSecret == "gu3ss"
OtherOwner == "other@o.org"

(***************************************************************************)
(* parseDays of index.ts: parseFloat, then 0 for NaN and for > 365.        *)
(***************************************************************************)
parseDays(daysStr) ==
  IF daysStr.isNaN THEN 0
  ELSE IF daysStr.value > WorkflowDaysCeiling THEN 0
  ELSE daysStr.value

\* JavaScript's a || b on numbers: b when a is 0 (or NaN), else a.
OrElse(a, b) == IF a = 0 THEN b ELSE a

\* (parseDays(this.env.NOT_BEFORE_DAYS) || DEFAULT_NOT_BEFORE_DAYS) * (24*60*60*1000)
SleepDuration(e) ==
  OrElse(parseDays(e.NOT_BEFORE_DAYS), DEFAULT_NOT_BEFORE_DAYS) * MsPerCentiDay

(***************************************************************************)
(* The workflow instance.  status is the engine's instance status:         *)
(* running, complete (Completed), errored (Failed), terminated (Cancelled).*)
(* pc is the step run() is at; phase is where that step is:                *)
(*   idle      the step has not started, or waits for its next attempt     *)
(*   inflight  the step's callback runs (awaiting env.SEB.send)            *)
(*   resolved  the callback returned; the result is not yet checkpointed   *)
(*   sleeping  step.sleep is suspended until resumeAt                      *)
(***************************************************************************)
\* The slots of the specification at hand (Init fixes how many there are).
Slots == DOMAIN wf

NoInstance ==
  [status |-> "none", pc |-> "notify", phase |-> "idle", failures |-> 0,
   id |-> 0, identity |-> "", domain |-> "",
   sleepStart |-> -1, resumeAt |-> -1, sendStart |-> -1,
   steps |-> <<>>, notified |-> 0, delivered |-> 0, recipients |-> {},
   cancel |-> "none", cancelIn |-> "none", exhausted |-> "none",
   restartedAsleep |-> FALSE,
   by |-> [from |-> "", to |-> "", inReplyTo |-> FALSE, subject |-> "",
           body |-> <<"none", "">>, contacts |-> <<>>]]

\* The spec's names of an instance's state.
StateOf(w) ==
  CASE w.status = "none" -> "None"
    [] w.status = "complete" -> "Completed"
    [] w.status = "errored" -> "Failed"
    [] w.status = "terminated" -> "Cancelled"
    [] w.status = "running" /\ w.pc = "notify" -> "Notifying"
    [] w.status = "running" /\ w.pc = "sleep" -> "Sleeping"
    [] w.status = "running" /\ w.pc = "send" -> "Releasing"
    [] OTHER -> "Completed"

TerminalButCompleted(w) == w.status \in {"errored", "terminated"}
Terminal(w) == w.status \in {"complete", "errored", "terminated"}

\* The order of the awaits in run(): notify, sleep, send, return.
NextStepSwapped(pc) ==
  CASE pc = "notify" -> "send"
    [] pc = "send" -> "sleep"
    [] pc = "sleep" -> "done"
    [] OTHER -> "done"
NextStep(pc) ==
  CASE pc = "notify" -> "sleep"
    [] pc = "sleep" -> "send"
    [] pc = "send" -> "done"
    [] OTHER -> "done"

\* run() moves past a completed step; past the last one it returns and the
\* instance is complete.
Advance(w, step) ==
  LET n == NextStep(step) IN
  [w EXCEPT !.pc = n, !.phase = "idle", !.failures = 0,
            !.steps = Append(w.steps, step),
            !.status = IF n = "done" THEN "complete" ELSE w.status]

\* SleepWorkflow.run is entered by SLEEP.create with params {id, identity, domain}
NewInstanceIdOfIdentity(id, identity, domain, message) ==
  [NoInstance EXCEPT !.status = "running", !.id = Len(identity),
                     !.identity = identity, !.domain = domain,
                     !.by = message]
NewInstance(id, identity, domain, message) ==
  [NoInstance EXCEPT !.status = "running", !.id = id,
                     !.identity = identity, !.domain = domain,
                     !.by = message]

(***************************************************************************)
(* step.do(name, {retries: {limit: 2, ...}}, callback): an attempt starts. *)
(***************************************************************************)
StepStart(i) ==
  /\ wf[i].status = "running"
  /\ wf[i].pc \in {"notify", "send"}
  /\ wf[i].phase = "idle"
  /\ wf' = [wf EXCEPT ![i].phase = "inflight",
                      ![i].sendStart =
                         IF wf[i].pc = "send" /\ wf[i].sendStart = -1
                         THEN now ELSE wf[i].sendStart]
  /\ UNCHANGED <<now, env, nextId, crashes, mailbox, issued>>

\* await env.SEB.send(message) resolves: the notification reached the owner
\* (notify), the protected content reached event.payload.identity (send).
\* A callback in flight is not interrupted by a termination.
SendResolves(i) ==
  /\ wf[i].status \in {"running", "terminated"}
  /\ wf[i].phase = "inflight"
  /\ wf' = [wf EXCEPT
       ![i].phase = "resolved",
       ![i].notified = IF wf[i].pc = "notify" THEN @ + 1 ELSE @,
       ![i].delivered = IF wf[i].pc = "send" THEN @ + 1 ELSE @,
       ![i].recipients = IF wf[i].pc = "send" THEN @ \cup {wf[i].identity} ELSE @]
  /\ UNCHANGED <<now, env, nextId, crashes, mailbox, issued>>

\* The engine records the step's result and run() goes on to its next await.
StepCheckpoint(i) ==
  /\ wf[i].status = "running"
  /\ wf[i].phase = "resolved"
  /\ wf' = [wf EXCEPT ![i] = Advance(wf[i], wf[i].pc)]
  /\ UNCHANGED <<now, env, nextId, crashes, mailbox, issued>>

\* The notify step has no try/catch: once its attempts are used up the error
\* leaves run() and the instance is errored.
NotifyExhaustedCaught(w) == [Advance(w, "notify") EXCEPT !.exhausted = "notify"]
NotifyExhausted(w) ==
  [w EXCEPT !.status = "errored", !.phase = "idle", !.exhausted = "notify"]

\* The send step is inside try { } catch (e) { console.error(e.message) }:
\* run() returns normally and the instance is complete.
SendExhaustedUncaught(w) ==
  [w EXCEPT !.status = "errored", !.phase = "idle", !.exhausted = "send"]
SendExhausted(w) ==
  [w EXCEPT !.status = "complete", !.pc = "done", !.phase = "idle",
            !.exhausted = "send"]

\* await env.SEB.send(message) rejects.  limit: 2 allows two retries, three
\* attempts in all.
SendRejects(i) ==
  /\ wf[i].phase = "inflight"
  /\ wf[i].status \in {"running", "terminated"}
  /\ LET w == [wf[i] EXCEPT !.failures = @ + 1] IN
     wf' = [wf EXCEPT ![i] =
       IF wf[i].status = "terminated" THEN [w EXCEPT !.phase = "idle"]
       ELSE IF w.failures <= RetriesLimit THEN [w EXCEPT !.phase = "idle"]
       ELSE IF w.pc = "notify" THEN NotifyExhausted(w)
       ELSE SendExhausted(w)]
  /\ UNCHANGED <<now, env, nextId, crashes, mailbox, issued>>

\* await step.sleep("sleep", duration): the engine stores the instant to
\* resume at and suspends the instance.
SleepStart(i) ==
  /\ wf[i].status = "running"
  /\ wf[i].pc = "sleep"
  /\ wf[i].phase = "idle"
  /\ wf' = [wf EXCEPT ![i].phase = "sleeping",
                      ![i].sleepStart = now,
                      ![i].resumeAt = now + SleepDuration(env)]
  /\ UNCHANGED <<now, env, nextId, crashes, mailbox, issued>>

\* The timer fires at or after resumeAt.
SleepDone(i) ==
  /\ wf[i].status = "running"
  /\ wf[i].pc = "sleep"
  /\ wf[i].phase = "sleeping"
  /\ now >= wf[i].resumeAt
  /\ wf' = [wf EXCEPT ![i] = Advance(wf[i], "sleep")]
  /\ UNCHANGED <<now, env, nextId, crashes, mailbox, issued>>

(***************************************************************************)
(* The orchestrator restarts the process that drives instance i.  What was *)
(* checkpointed is kept (completed steps, resumeAt, the attempt count); a  *)
(* step whose result was not yet recorded is executed again, also when its *)
(* side effect has already happened.                                       *)
(***************************************************************************)
\* What a restart leaves of instance w.
RestartedForgetful(w) ==
  [w EXCEPT !.phase = "idle",
            !.restartedAsleep = @ \/ w.phase = "sleeping"]
Restarted(w) ==
  [w EXCEPT !.phase = IF @ \in {"inflight", "resolved"} THEN "idle" ELSE @,
            !.restartedAsleep = @ \/ w.phase = "sleeping"]

Crash(i) ==
  /\ wf[i].status = "running"
  /\ crashes < MaxCrashes
  /\ crashes' = crashes + 1
  /\ wf' = [wf EXCEPT ![i] = Restarted(wf[i])]
  /\ UNCHANGED <<now, env, nextId, mailbox, issued>>

(***************************************************************************)
(* Cancel(instanceId), the owner's command.  It is a compare-and-swap on   *)
(* the instance's state: a non-terminal instance becomes Cancelled, unless *)
(* the release has already begun irrevocably (its callback is running or   *)
(* has returned); on a terminal instance it is a no-op.                    *)
(***************************************************************************)
ReleaseBegun(w) == w.pc = "send" /\ w.phase \in {"inflight", "resolved"}

CancelAcceptedFlagOnly(w) == ~Terminal(w)
CancelAccepted(w) == ~Terminal(w) /\ ~ReleaseBegun(w)

Cancel(i) ==
  /\ wf[i].status # "none"
  /\ wf' = [wf EXCEPT ![i] =
       [wf[i] EXCEPT
          !.status = IF CancelAccepted(wf[i]) THEN "terminated" ELSE @,
          !.cancel = IF CancelAccepted(wf[i]) THEN "accepted"
                     ELSE IF @ = "accepted" THEN @ ELSE "ignored",
          !.cancelIn = IF @ = "none" THEN StateOf(wf[i]) ELSE @]]
  /\ UNCHANGED <<now, env, nextId, crashes, mailbox, issued>>

(***************************************************************************)
(* Time passes, up to just before or to the instant a suspended instance   *)
(* is to resume at (cancelled or not).                                     *)
(***************************************************************************)
WakeInstants ==
  UNION {{wf[i].resumeAt - 1, wf[i].resumeAt} :
           i \in {j \in Slots : wf[j].phase = "sleeping"}}

Tick ==
  /\ \E t \in WakeInstants : t > now /\ now' = t
  /\ UNCHANGED <<env, wf, nextId, crashes, mailbox, issued>>

(***************************************************************************)
(* HMAC-SHA-256 and hexadecimal text.  A MAC is a sequence of MacBytes     *)
(* bytes, a hexadecimal text a sequence of digits 0..15.  Hmac stands for  *)
(* crypto.subtle.sign("HMAC", key, data): a fixed function of the key and  *)
(* of the signed text, different for the different texts of the model.     *)
(***************************************************************************)
\* The length of a SHA-256 MAC in bytes (index.ts:139 and :272).
MacBytes == 32
\* The least number of digits /iem-([0-9a-f]{12,})/ takes (index.ts:264).
MinTokenDigits == 12

StrCode(s) ==
  CASE s = "contact" -> 1
    [] s = "owner" -> 2
    [] s = "usage" -> 3
    [] s = "invitation" -> 5
    [] s = "a@x.com" -> 38
    [] s = "b@y.com" -> 29
    [] s = Owner -> 41
    [] s = OtherOwner -> 53
    [] s = Secret -> 7
    [] s = OtherSecret -> 11
    [] OTHER -> 97

RECURSIVE Digest(_)
Digest(data) ==
  IF data = <<>> THEN 0
  ELSE Len(data) * StrCode(data[Len(data)]) + Digest(SubSeq(data, 1, Len(data) - 1))

\* JSON.stringify({contact, owner, usage: "invitation"}): the keys in this order.
InvitationPayload(contact, owner) ==
  <<"contact", contact, "owner", owner, "usage", "invitation">>

\* The keys and the texts the model signs or verifies.
MacKeys == {Secret, OtherSecret}
MacTexts ==
  {InvitationPayload(c, o) : c \in Contacts \cup {Owner}, o \in {Owner, OtherOwner}}

HmacTable ==
  [key \in MacKeys, data \in MacTexts |->
     [i \in 1..MacBytes |-> (Digest(data) * (2 * i + 1) + StrCode(key) * i) % 256]]

Hmac(key, data) == HmacTable[key, data]

\* x.toString(16).padStart(2, "0") of every byte, joined (index.ts:156-160).
RECURSIVE hexOfUnpadded(_)
hexOfUnpadded(bytes) ==
  IF bytes = <<>> THEN <<>>
  ELSE hexOfUnpadded(SubSeq(bytes, 1, Len(bytes) - 1))
         \o (IF bytes[Len(bytes)] < 16 THEN <<bytes[Len(bytes)]>>
             ELSE <<bytes[Len(bytes)] \div 16, bytes[Len(bytes)] % 16>>)
hexOf(bytes) ==
  [k \in 1..(2 * Len(bytes)) |->
     IF k % 2 = 1 THEN bytes[(k + 1) \div 2] \div 16 ELSE bytes[k \div 2] % 16]

\* decodeHex (index.ts:12-17): two digits a byte; a last digit left alone is a
\* byte of its own.
decodeHex(str) ==
  [j \in 1..((Len(str) + 1) \div 2) |->
     IF 2 * j <= Len(str) THEN str[2 * j - 1] * 16 + str[2 * j] ELSE str[2 * j - 1]]

\* crypto.subtle.verify("HMAC", key, signature, data)
HmacVerify(key, signature, data) == signature = Hmac(key, data)

(***************************************************************************)
(* Inbound messages.  A message's body is named by what follows its first  *)
(* "iem-" and the contact that text was made for; BodyHex gives the run of *)
(* hexadecimal digits itself (empty when the body has no "iem-").          *)
(***************************************************************************)
ValidHexTable ==
  [c \in Contacts |-> hexOf(Hmac(Secret, InvitationPayload(c, Owner)))]
ValidHex(c) == ValidHexTable[c]

FlipLast(h) == [h EXCEPT ![Len(h)] = (@ + 1) % 16]
DropDigit(h) == SubSeq(h, 1, Len(h) - 2) \o <<h[Len(h)]>>

NoBody == <<"none", "">>
BodyKinds ==
  {"valid", "last digit changed", "digit dropped", "one byte short",
   "eleven digits", "one byte more", "other key", "other owner"}
Bodies == {NoBody} \cup (BodyKinds \X Contacts)

BodyHex ==
  [b \in Bodies |->
     CASE b[1] = "valid" -> ValidHex(b[2])
       [] b[1] = "last digit changed" -> FlipLast(ValidHex(b[2]))
       [] b[1] = "digit dropped" -> DropDigit(ValidHex(b[2]))
       [] b[1] = "one byte short" -> SubSeq(ValidHex(b[2]), 1, 2 * MacBytes - 2)
       [] b[1] = "eleven digits" -> SubSeq(ValidHex(b[2]), 1, MinTokenDigits - 1)
       [] b[1] = "one byte more" -> ValidHex(b[2]) \o <<0, 0>>
       [] b[1] = "other key" -> hexOf(Hmac(OtherSecret, InvitationPayload(b[2], Owner)))
       [] b[1] = "other owner" -> hexOf(Hmac(Secret, InvitationPayload(b[2], OtherOwner)))
       [] OTHER -> <<>>]

\* The addresses /[\w.-]+@[\w.-]+/g finds in the body, in order; NoText when
\* the message has no text part.
NoText == <<"no text">>
ContactLists ==
  {NoText, <<>>} \cup {<<c>> : c \in Contacts}
     \cup {<<c, d>> : c \in Contacts, d \in Contacts}

ContactMessages ==
  [from : Contacts, to : {Bot}, inReplyTo : BOOLEAN,
   subject : {"Data Access Request"}, body : Bodies, contacts : {<<>>}]

OwnerMessages ==
  [from : {Owner}, to : {Bot}, inReplyTo : BOOLEAN,
   subject : {"invite", "hello"}, body : {NoBody, <<"valid", "a@x.com">>},
   contacts : {NoText, <<"a@x.com">>}]

Messages == ContactMessages \cup OwnerMessages

DomainOf(addr) ==
  CASE addr = Bot -> "bot.dev"
    [] addr = Owner -> "v.org"
    [] addr = "a@x.com" -> "x.com"
    [] addr = "b@y.com" -> "y.com"
    [] OTHER -> ""

NoMatch == <<-1>>
\* email.text?.match(/iem-([0-9a-f]{12,})/)
TokenMatch(m) ==
  IF Len(BodyHex[m.body]) >= MinTokenDigits THEN BodyHex[m.body] ELSE NoMatch

Idle ==
  [handler |-> "none", log |-> "", created |-> 0, reply |-> "none",
   report |-> <<>>, invitations |-> {},
   contacts |-> NoText, attempted |-> {}, failing |-> {}]

(***************************************************************************)
(* handleContactEmail (index.ts:254-309).                                  *)
(***************************************************************************)
\* const verified = await crypto.subtle.verify(...)
ContactVerifiedAnySender(m, e) ==
  \E c \in Contacts :
    HmacVerify(e.SECRET, decodeHex(TokenMatch(m)), InvitationPayload(c, e.OWNER_EMAIL))
ContactVerified(m, e) ==
  HmacVerify(e.SECRET, decodeHex(TokenMatch(m)),
             InvitationPayload(m.from, e.OWNER_EMAIL))

handleContactEmail(m) ==
  IF m.inReplyTo
  THEN /\ mailbox' = [Idle EXCEPT !.handler = "contact"]
       /\ UNCHANGED <<wf, nextId>>
  ELSE IF TokenMatch(m) = NoMatch
  THEN /\ mailbox' = [Idle EXCEPT !.handler = "contact",
                                  !.log = "No token found in the email body"]
       /\ UNCHANGED <<wf, nextId>>
  ELSE IF ~ContactVerified(m, env)
  THEN /\ mailbox' = [Idle EXCEPT !.handler = "contact",
                                  !.log = "Invalid token signature"]
       /\ UNCHANGED <<wf, nextId>>
  ELSE /\ nextId + 1 \in Slots
       /\ nextId' = nextId + 1
       /\ wf' = [wf EXCEPT ![nextId + 1] =
                   NewInstance(nextId + 1, m.from, DomainOf(m.to), m)]
       /\ \E replied \in BOOLEAN :
            mailbox' = [Idle EXCEPT !.handler = "contact",
                                    !.created = nextId + 1,
                                    !.reply = IF replied THEN "scheduled" ELSE "none",
                                    !.log = IF replied THEN "" ELSE "reply failed"]

(***************************************************************************)
(* sendInvitationEmail (index.ts:130-170): the invitation carries the hex  *)
(* of the MAC of {contact, owner, usage: "invitation"}.                    *)
(***************************************************************************)
sendInvitationEmail(bot, owner, contact, e) ==
  [from |-> bot, to |-> contact,
   hex |-> hexOf(Hmac(e.SECRET, InvitationPayload(contact, owner)))]

(***************************************************************************)
(* Promise.allSettled(contacts.map(async (contact, index) => ...)) over n  *)
(* contacts (index.ts:195-205): every callback is started, and the result  *)
(* holds the outcome of each.  failing is the set of positions whose       *)
(* sendInvitationEmail rejects.                                            *)
(***************************************************************************)
SettleUntilFailure(n, failing) ==
  LET started == {k \in 1..n : \A j \in 1..(k - 1) : j \notin failing} IN
  [attempted |-> started,
   results |-> [k \in 1..n |-> IF k \in started \ failing THEN "fulfilled"
                               ELSE "rejected"]]
SettleAll(n, failing) ==
  [attempted |-> 1..n,
   results |-> [k \in 1..n |-> IF k \in failing THEN "rejected" ELSE "fulfilled"]]

(***************************************************************************)
(* handleOwnerEmail (index.ts:179-241).                                    *)
(***************************************************************************)
handleOwnerEmail(m) ==
  /\ UNCHANGED <<wf, nextId>>
  /\ IF m.inReplyTo
     THEN mailbox' = [Idle EXCEPT !.handler = "owner",
                                  !.log = "Cannot reply to a reply"]
     ELSE IF m.subject # "invite"
     THEN mailbox' = [Idle EXCEPT !.handler = "owner"]
     ELSE IF m.contacts = NoText
     THEN mailbox' = [Idle EXCEPT !.handler = "owner",
                        !.log = "No contact email found in the email body"]
     ELSE \E failing \in SUBSET (1..Len(m.contacts)) :
          \E reply \in {"report", "report with warning", "none"} :
            LET settled == SettleAll(Len(m.contacts), failing) IN
            mailbox' =
              [Idle EXCEPT
                 !.handler = "owner",
                 !.contacts = m.contacts,
                 !.failing = failing,
                 !.attempted = settled.attempted,
                 !.report = [k \in 1..Len(m.contacts) |->
                               [contact |-> m.contacts[k],
                                status |-> IF settled.results[k] = "fulfilled"
                                           THEN "success" ELSE "failed"]],
                 !.invitations =
                    {sendInvitationEmail(m.to, m.from, m.contacts[k], env) :
                       k \in settled.attempted \ failing},
                 !.reply = reply,
                 !.log = IF reply = "none" THEN "reply failed" ELSE ""]

(***************************************************************************)
(* email (index.ts:311-319): the owner's messages go to handleOwnerEmail,  *)
(* everybody else's to handleContactEmail.                                 *)
(***************************************************************************)
EmailUnrouted(m) ==
  /\ handleContactEmail(m)
  /\ UNCHANGED <<now, env, crashes, issued>>
Email(m) ==
  /\ IF m.from = env.OWNER_EMAIL THEN handleOwnerEmail(m) ELSE handleContactEmail(m)
  /\ UNCHANGED <<now, env, crashes, issued>>

(***************************************************************************)
(* The state machine of index.ts.                                          *)
(***************************************************************************)
Init ==
  /\ now = StartInstant
  /\ env \in [NOT_BEFORE_DAYS : WorkflowDayInputs, OWNER_EMAIL : {Owner},
              SECRET : {Secret}]
  /\ wf = [i \in 1..MaxInstances |-> NoInstance]
  /\ nextId = 0
  /\ crashes = 0
  /\ mailbox = Idle
  /\ issued = {}

Next ==
  \/ \E m \in Messages : Email(m)
  \/ \E i \in Slots : StepStart(i)
  \/ \E i \in Slots : SendResolves(i)
  \/ \E i \in Slots : SendRejects(i)
  \/ \E i \in Slots : StepCheckpoint(i)
  \/ \E i \in Slots : SleepStart(i)
  \/ \E i \in Slots : SleepDone(i)
  \/ \E i \in Slots : Crash(i)
  \/ \E i \in Slots : Cancel(i)
  \/ Tick

Spec == Init /\ [][Next]_vars

(***************************************************************************)
(* part_000: the worker that hands out time-bound trigger tokens.          *)
(***************************************************************************)
\* parseDays of part_000:78, the ceiling, 3650 days, in hundredths of a day
TokenDaysCeiling == 365000
\* part_000:87, parseDays(env.NOT_BEFORE_DAYS) || 3, in hundredths of a day
TokenDefaultNotBeforeDays == 300
\* part_000:89, parseDays(env.EXPIRATION_DAYS) || 7, in hundredths of a day
TokenDefaultExpirationDays == 700
\* part_000:90, notBeforeDays + 0.03, in hundredths of a day
TokenEpsilonDays == 3
\* 24 * 60 * 60 seconds a day (part_000:114), per hundredth of a day
SecPerCentiDay == (24 * 60 * 60) \div 100

VaultContent == "the secret"

parseDaysToken(daysStr) ==
  IF daysStr.isNaN THEN 0
  ELSE IF daysStr.value > TokenDaysCeiling THEN 0
  ELSE daysStr.value

Max(a, b) == IF a >= b THEN a ELSE b

\* Math.floor(Date.now() / 1000)
NowSeconds(ms) == ms \div 1000

notBeforeDaysOf(e) == OrElse(parseDaysToken(e.NOT_BEFORE_DAYS), TokenDefaultNotBeforeDays)
expirationDaysUnfloored(e) ==
  OrElse(parseDaysToken(e.EXPIRATION_DAYS), TokenDefaultExpirationDays)
expirationDaysOf(e) ==
  Max(OrElse(parseDaysToken(e.EXPIRATION_DAYS), TokenDefaultExpirationDays),
      notBeforeDaysOf(e) + TokenEpsilonDays)

(***************************************************************************)
(* The JWT library (@tsndr/cloudflare-worker-jwt).  A token is its payload *)
(* and a signature; the signature is the pair of the key and of the        *)
(* payload it was made over, so it is valid for that key and payload only. *)
(***************************************************************************)
sign(payload, secret) ==
  [payload |-> payload, sig |-> [key |-> secret, over |-> payload]]

decode(token) == [payload |-> token.payload]

\* verify(token, secret, {throwError: true}): the message of the error it
\* throws, or "OK".  The signature is checked first, then the time bounds;
\* the token is valid for nbf <= now < exp.
verify(token, secret, ms) ==
  IF token.sig # [key |-> secret, over |-> token.payload] THEN "INVALID_SIGNATURE"
  ELSE IF token.payload.nbf > NowSeconds(ms) THEN "NOT_YET_VALID"
  ELSE IF token.payload.exp <= NowSeconds(ms) THEN "EXPIRED"
  ELSE "OK"

\* What createToken returns when env.OWNER.send throws: a Response, printed
\* as "[object Response]" by the template of the reply.
ErrorResponse ==
  [payload |-> [identity |-> "[object Response]", nbf |-> 0, exp |-> 0],
   sig |-> [key |-> "", over |-> [identity |-> "", nbf |-> 0, exp |-> 0]]]

\* sign({identity, nbf, exp}, env.SECRET) of createToken (part_000:111-118)
TokenPayload(identity, e, ms) ==
  [identity |-> identity,
   nbf |-> NowSeconds(ms) + notBeforeDaysOf(e) * SecPerCentiDay,
   exp |-> NowSeconds(ms) + expirationDaysOf(e) * SecPerCentiDay]

\* createToken (part_000:82-119): the owner is notified, then the token is
\* signed; when the notification fails the result is the error Response.
createTokenSignsAnyway(identity, e, ms, notified) ==
  sign(TokenPayload(identity, e, ms), e.SECRET)
createToken(identity, e, ms, notified) ==
  IF notified THEN sign(TokenPayload(identity, e, ms), e.SECRET) ELSE ErrorResponse

(***************************************************************************)
(* The text a contact sends.  NoToken: the body holds no "[ token ]".      *)
(* Besides the tokens issued so far, a sender may present one whose        *)
(* payload was changed, one signed with another key, or something that is  *)
(* no token.                                                               *)
(***************************************************************************)
NoToken ==
  [payload |-> [identity |-> "", nbf |-> 0, exp |-> 0],
   sig |-> [key |-> "none", over |-> [identity |-> "", nbf |-> 0, exp |-> 0]]]

OpenWindow(t) == [t EXCEPT !.payload.nbf = 0, !.payload.exp = t.payload.exp + 1]

Presentable ==
  {NoToken, sign([identity |-> "a@x.com", nbf |-> 0, exp |-> 0], OtherSecret)}
    \cup {r.jwt : r \in issued}
    \cup {OpenWindow(r.jwt) : r \in issued}
    \cup {sign(r.jwt.payload, OtherSecret) : r \in issued}

TokenIdle ==
  [handler |-> "none", from |-> "", at |-> 0, submitted |-> NoToken,
   kind |-> "none", data |-> "", names |-> 0, token |-> NoToken, notices |-> 0]

\* The reply to a presented token (part_000:150-177).
VerifyReplyLeaky(result, token) ==
  CASE result = "OK" -> [kind |-> "content", data |-> VaultContent, names |-> 0]
    [] result = "NOT_YET_VALID" ->
         [kind |-> "not yet valid", data |-> "Token is not yet valid.",
          names |-> decode(token).payload.nbf * 1000]
    [] result = "EXPIRED" ->
         [kind |-> "content", data |-> VaultContent, names |-> 0]
    [] OTHER -> [kind |-> "invalid", data |-> "Invalid token.", names |-> 0]
VerifyReply(result, token) ==
  CASE result = "OK" -> [kind |-> "content", data |-> VaultContent, names |-> 0]
    [] result = "NOT_YET_VALID" ->
         [kind |-> "not yet valid", data |-> "Token is not yet valid.",
          names |-> decode(token).payload.nbf * 1000]
    [] result = "EXPIRED" ->
         [kind |-> "expired", data |-> "Token has expired.", names |-> 0]
    [] OTHER -> [kind |-> "invalid", data |-> "Invalid token.", names |-> 0]

\* What is remembered of a token createToken has signed: the token, whom it
\* was made for and when, and how often it has been accepted since (0, 1,
\* or MaxAccepted for more).  The worker itself stores nothing of it.
MaxAccepted == 2
IssuedRecord(token, identity, ms) ==
  [jwt |-> token, issuedAt |-> ms, identity |-> identity, accepted |-> 0]

Presented(rec, token, kind) ==
  IF rec.jwt = token /\ kind = "content" /\ rec.accepted < MaxAccepted
  THEN [rec EXCEPT !.accepted = @ + 1]
  ELSE rec

\* if (env.CONTACT_WHITELIST) { ... if (!whitelist.includes(message.from)) return; }
\* The list is the set of its entries; an unset (or empty) variable is {}.
PassesWhitelistUnchecked(from, e) == TRUE
PassesWhitelist(from, e) ==
  e.CONTACT_WHITELIST = {} \/ from \in e.CONTACT_WHITELIST

\* email of part_000 (lines 122-187).
TokenEmail(from, inReplyTo, body) ==
  /\ UNCHANGED <<now, env, wf, nextId, crashes>>
  /\ IF ~PassesWhitelist(from, env)
     THEN /\ mailbox' = [TokenIdle EXCEPT !.handler = "email", !.from = from,
                                          !.at = now, !.submitted = body]
          /\ UNCHANGED issued
     ELSE IF inReplyTo
     THEN /\ mailbox' = [TokenIdle EXCEPT !.handler = "email", !.from = from,
                                          !.at = now, !.submitted = body]
          /\ UNCHANGED issued
     ELSE IF body = NoToken
     THEN /\ Cardinality(issued) < MaxTokens
          /\ \E notified \in BOOLEAN :
               LET token == createToken(from, env, now, notified) IN
               /\ issued' = IF notified
                            THEN issued \cup {IssuedRecord(token, from, now)}
                            ELSE issued
               /\ mailbox' = [TokenIdle EXCEPT
                     !.handler = "email", !.from = from, !.at = now,
                     !.kind = "token", !.token = token,
                     !.notices = IF notified THEN 1 ELSE 0]
     ELSE LET r == VerifyReply(verify(body, env.SECRET, now), body) IN
          /\ mailbox' = [TokenIdle EXCEPT
                !.handler = "email", !.from = from, !.at = now,
                !.submitted = body, !.kind = r.kind, !.data = r.data,
                !.names = r.names]
          /\ issued' = {Presented(rec, body, r.kind) : rec \in issued}

\* fetch of part_000 (lines 189-201): a JSON request is answered with a
\* token for "anonymous", any other one with the page.
Fetch(isJson) ==
  /\ UNCHANGED <<now, env, wf, nextId, crashes>>
  /\ IF ~isJson
     THEN /\ mailbox' = [TokenIdle EXCEPT !.handler = "fetch", !.at = now,
                                          !.kind = "page"]
          /\ UNCHANGED issued
     ELSE /\ Cardinality(issued) < MaxTokens
          /\ \E notified \in BOOLEAN :
               LET token == createToken("anonymous", env, now, notified) IN
               /\ issued' = IF notified
                            THEN issued \cup {IssuedRecord(token, "anonymous", now)}
                            ELSE issued
               /\ mailbox' = [TokenIdle EXCEPT
                     !.handler = "fetch", !.at = now, !.kind = "token",
                     !.token = token, !.notices = IF notified THEN 1 ELSE 0]

\* Time passes, to the last millisecond before or to the first one of an
\* issued token's nbf or exp.
TokenInstants ==
  UNION {{r.jwt.payload.nbf * 1000 - 1, r.jwt.payload.nbf * 1000,
          r.jwt.payload.exp * 1000 - 1, r.jwt.payload.exp * 1000} : r \in issued}

TokenTick ==
  /\ \E t \in TokenInstants : t > now /\ now' = t
  /\ UNCHANGED <<env, wf, nextId, crashes, mailbox, issued>>

TokenDayInputs ==
  {NaN} \cup {Num(v) : v \in {0, -100, 1, TokenDaysCeiling + 100}}

TokenInit ==
  /\ now = StartInstant
  /\ env \in [NOT_BEFORE_DAYS : TokenDayInputs,
              EXPIRATION_DAYS : {NaN} \cup {Num(v) : v \in {200, 1000}},
              CONTACT_WHITELIST : {{}, {"a@x.com"}},
              OWNER_EMAIL : {Owner}, SECRET : {Secret}]
  /\ wf = [i \in 1..MaxInstances |-> NoInstance]
  /\ nextId = 0
  /\ crashes = 0
  /\ mailbox = TokenIdle
  /\ issued = {}

TokenNext ==
  \/ \E from \in Contacts, inReplyTo \in BOOLEAN, body \in Presentable :
       TokenEmail(from, inReplyTo, body)
  \/ \E isJson \in BOOLEAN : Fetch(isJson)
  \/ TokenTick

TokenSpec == TokenInit /\ [][TokenNext]_vars

(***************************************************************************)
(* The handling of mail alone (email and its two handlers), for every      *)
(* message of Messages, without the steps of the instances created.        *)
(***************************************************************************)
RouteNext == \E m \in Messages : Email(m)

RouteSpec == Init /\ [][RouteNext]_vars

(***************************************************************************)
(* The owner's side of index.ts alone: the messages of the owner, with     *)
(* every list of at most MaxContacts addresses in the body (the contacts,  *)
(* and the owner's own address, which the pattern finds as well).          *)
(***************************************************************************)
InviteLists ==
  {NoText} \cup UNION {[1..n -> Contacts \cup {Owner}] : n \in 0..MaxContacts}

InviteMessages ==
  [from : {Owner}, to : {Bot}, inReplyTo : BOOLEAN, subject : {"invite", "hello"},
   body : {NoBody}, contacts : InviteLists]

\* NOT_BEFORE_DAYS plays no part in handleOwnerEmail.
InviteInit ==
  /\ now = StartInstant
  /\ env \in [NOT_BEFORE_DAYS : {NaN}, OWNER_EMAIL : {Owner}, SECRET : {Secret}]
  /\ wf = [i \in 1..MaxInstances |-> NoInstance]
  /\ nextId = 0
  /\ crashes = 0
  /\ mailbox = Idle
  /\ issued = {}

InviteNext == \E m \in InviteMessages : Email(m)

InviteSpec == InviteInit /\ [][InviteNext]_vars

(***************************************************************************)
(* The state machine of index.ts with room for a second instance, for the  *)
(* messages that matter to replays and to concurrent requests: the valid   *)
(* invitation of each contact, sent by that contact or by the other one,   *)
(* and the owner's invitation of a list of contacts.  The instances are    *)
(* followed from their creation into their sleep, with the failures of     *)
(* the notify step and the owner's Cancel.                                 *)
(***************************************************************************)
ReplayMessages ==
  [from : Contacts, to : {Bot}, inReplyTo : {FALSE},
   subject : {"Data Access Request"}, body : {"valid"} \X Contacts,
   contacts : {<<>>}]
    \cup [from : {Owner}, to : {Bot}, inReplyTo : {FALSE}, subject : {"invite"},
          body : {NoBody}, contacts : {<<"a@x.com", "a@x.com">>}]

ReplayInit ==
  /\ now = StartInstant
  /\ env \in [NOT_BEFORE_DAYS : {Num(50)}, OWNER_EMAIL : {Owner}, SECRET : {Secret}]
  /\ wf = [i \in 1..MaxReplayInstances |-> NoInstance]
  /\ nextId = 0
  /\ crashes = 0
  /\ mailbox = Idle
  /\ issued = {}

ReplayNext ==
  \/ \E m \in ReplayMessages : Email(m)
  \/ \E i \in Slots : StepStart(i)
  \/ \E i \in Slots : SendResolves(i)
  \/ \E i \in Slots : SendRejects(i)
  \/ \E i \in Slots : StepCheckpoint(i)
  \/ \E i \in Slots : SleepStart(i)
  \/ \E i \in Slots : Cancel(i)

ReplaySpec == ReplayInit /\ [][ReplayNext]_vars

(***************************************************************************)
(* The same machine under the engine's scheduling: a step that can start   *)
(* starts, a callback in flight returns, a result is recorded, a timer     *)
(* fires, and time passes.  Nothing obliges a message, a Cancel or a       *)
(* restart to happen.                                                      *)
(***************************************************************************)
Fairness ==
  /\ WF_vars(Tick)
  /\ \A i \in 1..MaxInstances :
       /\ WF_vars(StepStart(i))
       /\ WF_vars(SendResolves(i) \/ SendRejects(i))
       /\ WF_vars(StepCheckpoint(i))
       /\ WF_vars(SleepStart(i))
       /\ WF_vars(SleepDone(i))

FairSpec == Init /\ [][Next]_vars /\ Fairness

(***************************************************************************)
(* Properties of the countdown workflow.                                   *)
(***************************************************************************)
StepOrders ==
  {<<>>, <<"notify">>, <<"notify", "sleep">>, <<"notify", "sleep", "send">>}

\* C1: the send step never starts before the notify step has completed and
\* the sleep step has lasted the whole of the configured period, counted
\* from the instant the sleep began; steps complete in the order notify,
\* sleep, send, whatever fails, is retried or restarted.
C1_ReleaseOnlyAfterNotifyAndFullSleep ==
  \A i \in Slots :
    LET w == wf[i] IN
    /\ w.steps \in StepOrders
    /\ (w.sendStart # -1 \/ w.delivered > 0) =>
         /\ Len(w.steps) >= 2
         /\ w.notified >= 1
         /\ w.sleepStart # -1
         /\ w.sendStart - w.sleepStart >= SleepDuration(env)

C1_Witness ==
  \E i \in Slots :
    /\ wf[i].sendStart # -1
    /\ SleepDuration(env) > 0
    /\ wf[i].steps = <<"notify", "sleep">>
    /\ crashes > 0

\* C2: a Cancel issued while the instance is Sleeping makes it Cancelled,
\* and the release step never runs: the send step is never started and the
\* protected content is never delivered for that instance.
C2_CancelWhileSleepingPreventsRelease ==
  \A i \in Slots :
    wf[i].cancelIn = "Sleeping" =>
      /\ wf[i].status = "terminated"
      /\ wf[i].sendStart = -1
      /\ wf[i].delivered = 0
      /\ wf[i].steps = <<"notify">>

C2_Witness ==
  \E i \in Slots :
    /\ wf[i].cancelIn = "Sleeping"
    /\ wf[i].phase = "sleeping"
    /\ now >= wf[i].resumeAt
    /\ SleepDuration(env) > 0

\* C3: when the notify step fails on each of its three attempts (retries
\* limit 2), the instance is Failed, and neither the sleep step nor the
\* send step ever runs; nothing else makes an instance Failed.
C3_NotifyExhaustionFails ==
  \A i \in Slots :
    LET w == wf[i] IN
    /\ w.failures <= RetriesLimit + 1
    /\ w.status = "errored" <=> w.exhausted = "notify"
    /\ w.exhausted = "notify" =>
         /\ w.failures = RetriesLimit + 1
         /\ w.steps = <<>>
         /\ w.sleepStart = -1
         /\ w.sendStart = -1
         /\ w.delivered = 0

C3_Witness ==
  \E i \in Slots :
    /\ wf[i].exhausted = "notify"
    /\ wf[i].status = "errored"
    /\ wf[i].notified = 0
    /\ wf[i].cancel = "ignored"

\* C4: whatever the interleaving of Cancel with the workflow's steps, once
\* an instance is Cancelled it stays Cancelled and no delivery of the
\* protected content happens for it any more.
C4_NoReleaseAfterCancel ==
  [][\A i \in Slots :
       wf[i].status = "terminated" =>
         /\ wf'[i].status = "terminated"
         /\ wf'[i].delivered = wf[i].delivered]_vars

C4_Witness ==
  \E i \in Slots :
    /\ wf[i].status = "terminated"
    /\ wf[i].cancelIn = "Releasing"
    /\ wf[i].failures > 0
    /\ wf[i].delivered = 0

\* C5: the release step delivers the protected content to
\* event.payload.identity exactly once for an instance that completes
\* without using up its retries, and never twice, also when the step is
\* retried or executed again after a restart.
C5_DeliveredExactlyOnce ==
  \A i \in Slots :
    LET w == wf[i] IN
    /\ w.delivered <= 1
    /\ w.recipients \subseteq {w.identity}
    /\ (w.status = "complete" /\ w.exhausted = "none") => w.delivered = 1

\* C6: an instance whose notify step has succeeded and that is not
\* cancelled eventually completes (the waiting period elapses and the send
\* step runs).
C6_EventuallyCompleted ==
  \A i \in 1..MaxInstances :
    (wf[i].status = "running" /\ wf[i].steps # <<>>)
       ~> (wf[i].status \in {"complete", "terminated"})

C6_Witness ==
  \E i \in Slots :
    /\ wf[i].status = "complete"
    /\ wf[i].steps = <<"notify", "sleep", "send">>
    /\ wf[i].delivered = 1
    /\ wf[i].cancel = "none"
    /\ SleepDuration(env) > 0

\* C7: when the send step fails on each of its attempts, the error is
\* caught: the instance is Completed, never Failed, and the protected
\* content has not been delivered.
C7_SendExhaustionCompletes ==
  \A i \in Slots :
    LET w == wf[i] IN
    w.exhausted = "send" =>
      /\ w.status = "complete"
      /\ w.steps = <<"notify", "sleep">>
      /\ (w.delivered = 0 <=> w.recipients = {})
      /\ crashes = 0 => w.delivered = 0

C7_Witness ==
  \E i \in Slots :
    /\ wf[i].exhausted = "send"
    /\ wf[i].status = "complete"
    /\ wf[i].delivered = 0
    /\ wf[i].failures = RetriesLimit + 1

\* C8: a workflow instance exists only for a message that is no reply, was
\* not sent by the owner, and carries after "iem-" at least 12 hexadecimal
\* digits that decode to the MAC of {contact: message.from, owner:
\* OWNER_EMAIL, usage: "invitation"}; the instance's identity is that
\* sender.  A signature made for another contact, for another owner or
\* with another key, a changed or shortened one, or none, starts nothing.
C8_InstanceOnlyForVerifiedInvitation ==
  /\ \A i \in Slots :
       wf[i].status # "none" =>
         LET m == wf[i].by IN
         /\ m.from \in Contacts
         /\ ~m.inReplyTo
         /\ Len(BodyHex[m.body]) >= MinTokenDigits
         /\ decodeHex(BodyHex[m.body]) = Hmac(Secret, InvitationPayload(m.from, Owner))
         /\ wf[i].identity = m.from
         /\ m.body[2] = m.from
  /\ mailbox.created # 0 => wf[mailbox.created].status # "none"
  /\ mailbox.log \in {"No token found in the email body", "Invalid token signature",
                      "Cannot reply to a reply", "No contact email found in the email body"}
       => mailbox.created = 0
  /\ Cardinality({i \in Slots : wf[i].status # "none"}) = nextId

C8_Witness ==
  \E i \in Slots :
    /\ wf[i].status # "none"
    /\ wf[i].by.body = <<"valid", "b@y.com">>
    /\ wf[i].by.from = "b@y.com"
    /\ mailbox.log = "Invalid token signature"

(***************************************************************************)
(* Properties of the trigger tokens of part_000 (under TokenSpec).         *)
(***************************************************************************)
IssuedTokens == {r.jwt : r \in issued}

\* C9: the reply to a presented token holds the protected content exactly
\* when the token is one the worker signed and now is in [nbf, exp); before
\* that window the reply says not yet valid and names nbf, from exp on it
\* says expired, for any other token it says invalid; none of these three,
\* and no other reply, holds the protected content.
C9_ContentIffSignedAndInWindow ==
  LET t == mailbox.submitted
      s == NowSeconds(mailbox.at)
      signed == t \in IssuedTokens
  IN
  /\ mailbox.data = VaultContent <=> mailbox.kind = "content"
  /\ mailbox.kind \in {"content", "not yet valid", "expired", "invalid"} =>
       /\ mailbox.kind = "content" <=>
            (signed /\ t.payload.nbf <= s /\ s < t.payload.exp)
       /\ (signed /\ s < t.payload.nbf) =>
            (mailbox.kind = "not yet valid" /\ mailbox.names = t.payload.nbf * 1000)
       /\ (signed /\ s >= t.payload.nbf /\ s >= t.payload.exp) =>
            mailbox.kind = "expired"
       /\ ~signed => mailbox.kind = "invalid"

C9_Witness ==
  /\ mailbox.kind = "content"
  /\ mailbox.data = VaultContent
  /\ mailbox.submitted \in IssuedTokens
  /\ NowSeconds(mailbox.at) = mailbox.submitted.payload.exp - 1
  /\ now >= mailbox.submitted.payload.exp * 1000

\* C10: for every identity and all day settings with expirationDays >=
\* notBeforeDays + 0.03, verifying a token at the instant it was issued
\* gives NOT_YET_VALID.
C10_ImmediateVerifyNotYetValid ==
  \A r \in issued :
    (r.issuedAt = now
       /\ expirationDaysOf(env) >= notBeforeDaysOf(env) + TokenEpsilonDays) =>
      verify(r.jwt, env.SECRET, now) = "NOT_YET_VALID"

\* C11: for every issued token, verification at or after exp gives EXPIRED,
\* however often the token was accepted before (also never); verification
\* in [nbf, exp) succeeds, and the token carries the identity it was issued
\* for; the reply to a token presented in its window is the protected
\* content the first time and every later time; a token accepted at some time
\* is past its nbf.
C11_ExpiredAfterWindowAcceptedWithin ==
  \A r \in issued :
    LET t == r.jwt
        s == NowSeconds(now)
        at == NowSeconds(mailbox.at)
    IN
    /\ s >= t.payload.exp => verify(t, env.SECRET, now) = "EXPIRED"
    /\ (t.payload.nbf <= s /\ s < t.payload.exp) =>
         /\ verify(t, env.SECRET, now) = "OK"
         /\ decode(t).payload.identity = r.identity
    /\ (mailbox.submitted = t /\ mailbox.kind # "none") =>
         /\ at >= t.payload.exp => mailbox.kind = "expired"
         /\ (t.payload.nbf <= at /\ at < t.payload.exp) =>
              (mailbox.kind = "content" /\ r.accepted >= 1)
    /\ r.accepted >= 1 => s >= t.payload.nbf

\* A token accepted more than once in its window, presented again at the
\* first millisecond of exp, and answered with "expired".
C11_Witness ==
  \E r \in issued :
    /\ r.accepted = MaxAccepted
    /\ mailbox.submitted = r.jwt
    /\ mailbox.at = r.jwt.payload.exp * 1000
    /\ mailbox.kind = "expired"

(***************************************************************************)
(* Properties of invitations and of concurrent requests (ReplaySpec).      *)
(***************************************************************************)
ValidRequest(c) ==
  [from |-> c, to |-> Bot, inReplyTo |-> FALSE, subject |-> "Data Access Request",
   body |-> <<"valid", c>>, contacts |-> <<>>]

\* C12: the invitation issued for a contact carries the hexadecimal text of
\* the MAC of {contact, owner, usage}, the same text at every issuance; it
\* matches the pattern, decodes to that MAC and verifies for that contact
\* and owner, each time it is presented; every instance was started by the
\* text issued for its sender.
C12_InvitationRoundTrip ==
  /\ \A inv \in mailbox.invitations :
       /\ inv.hex = BodyHex[<<"valid", inv.to>>]
       /\ Len(inv.hex) >= MinTokenDigits
       /\ HmacVerify(env.SECRET, decodeHex(inv.hex),
                     InvitationPayload(inv.to, env.OWNER_EMAIL))
  /\ \A c \in Contacts :
       /\ TokenMatch(ValidRequest(c)) = BodyHex[<<"valid", c>>]
       /\ ContactVerified(ValidRequest(c), env)
  /\ \A i \in Slots : wf[i].status # "none" => wf[i].by = ValidRequest(wf[i].identity)

\* The owner invites a contact twice in one message, after that contact
\* has presented the invitation twice: one text was issued, the one both
\* instances were started with.
C12_Witness ==
  /\ Cardinality(mailbox.invitations) = 1
  /\ Len(mailbox.report) = 2
  /\ \A k \in 1..Len(mailbox.report) : mailbox.report[k].status = "success"
  /\ \A i \in Slots :
       /\ wf[i].status # "none"
       /\ \E inv \in mailbox.invitations :
            inv.to = wf[i].identity /\ inv.hex = BodyHex[wf[i].by.body]

\* C16: every verified request creates an instance of its own, with an id
\* no other instance has, also when the same contact presents the same
\* invitation again and when several contacts ask; a step of the machine
\* changes at most one instance, so a Cancel or a failure of one instance
\* leaves the other as it was.
C16_IndependentInstances ==
  [][/\ \A i, j \in Slots :
          (i # j /\ wf[i].status # "none" /\ wf[j].status # "none")
             => wf[i].id # wf[j].id
     /\ \A i, j \in Slots : (i # j /\ wf'[i] # wf[i]) => wf'[j] = wf[j]
     /\ \A c \in Contacts :
          Email(ValidRequest(c)) =>
            /\ nextId' = nextId + 1
            /\ Cardinality({i \in Slots : wf'[i].status # "none"}) = nextId'
            /\ wf'[nextId'].identity = c
            /\ wf'[nextId'].status = "running"
            /\ \A j \in Slots \ {nextId'} :
                 wf'[j].status # "none" => wf'[j].id # wf'[nextId'].id]_vars

\* The same contact has presented the same invitation twice; the first
\* instance was cancelled while notifying, the second one has meanwhile
\* gone on into its sleep.
C16_Witness ==
  /\ wf[1].by = wf[2].by
  /\ wf[1].status = "terminated"
  /\ wf[1].cancelIn = "Notifying"
  /\ wf[2].status = "running"
  /\ wf[2].phase = "sleeping"
  /\ wf[1].id # wf[2].id

(***************************************************************************)
(* Properties of the owner's invitations (InviteSpec).                     *)
(***************************************************************************)
\* C13: for every list of contacts and every set of failing sends, a send
\* is attempted for every contact, an invitation goes out for each contact
\* whose send did not fail, whatever failed before it, and the report has
\* one entry per contact, in order: failed for the failing ones, success
\* for the others.
C13_FanOutIsolatesFailures ==
  mailbox.contacts # NoText =>
    LET n == Len(mailbox.contacts) IN
    /\ mailbox.attempted = 1..n
    /\ Len(mailbox.report) = n
    /\ \A k \in 1..n :
         /\ mailbox.report[k].contact = mailbox.contacts[k]
         /\ mailbox.report[k].status = "failed" <=> k \in mailbox.failing
         /\ mailbox.report[k].status \in {"success", "failed"}
         /\ k \notin mailbox.failing =>
              sendInvitationEmail(Bot, Owner, mailbox.contacts[k], env)
                 \in mailbox.invitations
    /\ \A inv \in mailbox.invitations :
         \E k \in (1..n) \ mailbox.failing : inv.to = mailbox.contacts[k]

\* Three contacts, the send to the second one fails.
C13_Witness ==
  /\ mailbox.contacts = <<"a@x.com", "b@y.com", Owner>>
  /\ mailbox.failing = {2}
  /\ mailbox.report = <<[contact |-> "a@x.com", status |-> "success"],
                        [contact |-> "b@y.com", status |-> "failed"],
                        [contact |-> Owner, status |-> "success"]>>
  /\ {inv.to : inv \in mailbox.invitations} = {"a@x.com", Owner}

(***************************************************************************)
(* Properties of restarts and of Cancel on a finished instance.            *)
(***************************************************************************)
IsPrefix(p, q) == Len(p) <= Len(q) /\ SubSeq(q, 1, Len(p)) = p

\* C14: whatever step is taken (a restart among them), the recorded steps
\* of an instance are kept and grow by one at most; once the notify step
\* is recorded the owner is not notified again; once the sleep has begun
\* its start and the instant to resume at do not change, and they are one
\* whole period apart; the sleep is left once, at or after that instant.
C14_RestartLosesNoProgress ==
  [][\A i \in Slots :
       LET w == wf[i]
           v == wf'[i]
       IN
       /\ IsPrefix(w.steps, v.steps)
       /\ Len(v.steps) <= Len(w.steps) + 1
       /\ v.steps \in StepOrders
       /\ Len(w.steps) >= 1 => v.notified = w.notified
       /\ w.resumeAt # -1 =>
            /\ v.resumeAt = w.resumeAt
            /\ v.sleepStart = w.sleepStart
            /\ w.resumeAt = w.sleepStart + SleepDuration(env)
       /\ (Len(w.steps) < 2 /\ Len(v.steps) >= 2) =>
            (w.phase = "sleeping" /\ now >= w.resumeAt)
       /\ Len(w.steps) >= 2 => v.phase # "sleeping"]_vars

\* An instance restarted in the middle of its sleep has been resumed at the
\* instant set when the sleep began, and has gone on to the send step.
C14_Witness ==
  \E i \in Slots :
    /\ wf[i].restartedAsleep
    /\ wf[i].steps = <<"notify", "sleep">>
    /\ wf[i].notified = 1
    /\ now = wf[i].resumeAt
    /\ SleepDuration(env) > 0

\* C15: an instance that is Completed, Cancelled or Failed stays so; a
\* Cancel of it is taken (no error) and changes nothing of the instance but
\* the note that it was ignored; Completed never becomes Cancelled.
C15_CancelOnTerminalIsNoOp ==
  [][\A i \in Slots :
       StateOf(wf[i]) \in {"Completed", "Cancelled", "Failed"} =>
         /\ StateOf(wf'[i]) = StateOf(wf[i])
         /\ wf'[i].delivered >= wf[i].delivered
         /\ ENABLED Cancel(i)
         /\ Cancel(i) =>
              /\ [wf'[i] EXCEPT !.cancel = wf[i].cancel,
                                !.cancelIn = wf[i].cancelIn] = wf[i]
              /\ wf'[i].cancel \in {"ignored", wf[i].cancel}]_vars

\* A Cancel has arrived after the release completed.
C15_Witness ==
  \E i \in Slots :
    /\ wf[i].status = "complete"
    /\ wf[i].delivered = 1
    /\ wf[i].cancel = "ignored"
    /\ wf[i].cancelIn = "Completed"

\* C17: with CONTACT_WHITELIST set, a message of a sender that is not in
\* the list gets no reply: no token is made (and the owner is not
\* notified), nothing is verified, the protected content is not sent; every
\* token made for a sender is made for a listed one.  With the variable
\* unset, every sender who asks gets a token.
C17_WhitelistGatesEverything ==
  /\ (mailbox.handler = "email" /\ env.CONTACT_WHITELIST # {}
        /\ mailbox.from \notin env.CONTACT_WHITELIST) =>
       /\ mailbox.kind = "none"
       /\ mailbox.data = ""
       /\ mailbox.token = NoToken
       /\ mailbox.notices = 0
  /\ env.CONTACT_WHITELIST # {} =>
       \A r \in issued : r.identity \in env.CONTACT_WHITELIST \cup {"anonymous"}
  /\ (env.CONTACT_WHITELIST = {} /\ Cardinality(issued) < MaxTokens) =>
       \A from \in Contacts :
         ENABLED (/\ TokenEmail(from, FALSE, NoToken)
                  /\ mailbox'.kind = "token"
                  /\ mailbox'.from = from
                  /\ \E r \in issued' : r.identity = from)

\* A sender that is not in the list presents a token of a listed sender
\* inside its window, and gets nothing.
C17_Witness ==
  /\ env.CONTACT_WHITELIST = {"a@x.com"}
  /\ mailbox.handler = "email"
  /\ mailbox.from = "b@y.com"
  /\ mailbox.submitted \in IssuedTokens
  /\ verify(mailbox.submitted, env.SECRET, mailbox.at) = "OK"
  /\ mailbox.kind = "none"

(***************************************************************************)
(* Properties of the configured day counts.                                *)
(***************************************************************************)
\* C19: whatever NOT_BEFORE_DAYS is set to, the sleep step is given a
\* duration above zero: an instance that sleeps is to resume later than
\* its sleep began, and a setting that is no number or is above the
\* ceiling gives the default of 7 days.
C19_SleepDurationPositive ==
  /\ parseDays(env.NOT_BEFORE_DAYS) = 0 =>
       SleepDuration(env) = DEFAULT_NOT_BEFORE_DAYS * MsPerCentiDay
  /\ \A i \in Slots :
       wf[i].phase = "sleeping" => wf[i].resumeAt > wf[i].sleepStart

C21_TokenOnlyAfterOwnerNotified ==
  /\ mailbox.kind = "token" =>
       /\ mailbox.notices = 1 <=> mailbox.token.sig.key = env.SECRET
       /\ mailbox.notices = 1 <=> mailbox.token \in IssuedTokens
       /\ mailbox.notices = 0 =>
            /\ mailbox.token = ErrorResponse
            /\ verify(mailbox.token, env.SECRET, now) = "INVALID_SIGNATURE"
  /\ \A r \in issued : r.jwt.sig = [key |-> env.SECRET, over |-> r.jwt.payload]

\* A contact asked for a token, the notification to the owner failed: the
\* reply holds the error Response and nothing was signed.
C21_Witness ==
  /\ mailbox.handler = "email"
  /\ mailbox.kind = "token"
  /\ mailbox.notices = 0
  /\ mailbox.token = ErrorResponse
  /\ issued = {}

\* C22: handling a message of the owner is handleOwnerEmail's work alone
\* and creates no instance; handling a message with In-Reply-To creates no
\* instance and sends no invitation, whoever sent it; no instance that
\* exists was started by such a message.
C22_OwnerAndRepliesStartNothing ==
  [][/\ \A i \in Slots :
          wf[i].status # "none" =>
            (wf[i].by.from # env.OWNER_EMAIL /\ ~wf[i].by.inReplyTo)
     /\ \A m \in Messages :
          ((m.from = env.OWNER_EMAIL \/ m.inReplyTo) /\ Email(m)) =>
            /\ wf' = wf
            /\ nextId' = nextId
            /\ mailbox'.created = 0
            /\ m.from = env.OWNER_EMAIL <=> mailbox'.handler = "owner"
            /\ m.inReplyTo =>
                 /\ mailbox'.invitations = {}
                 /\ mailbox'.attempted = {}
                 /\ mailbox'.reply = "none"]_vars

\* The last message handled was a contact's reply (handleContactEmail
\* returned at once), and no instance exists.
C22_Witness ==
  /\ mailbox.handler = "contact"
  /\ mailbox.created = 0
  /\ mailbox.log = ""
  /\ nextId = 0
  /\ \A i \in Slots : wf[i].status = "none"

====
